---- MODULE Spec2Model ----
(***************************************************************************)
(* Model of the portal-based global shortcut session manager               *)
(* (src/src-tauri/src/hotkey/wayland.rs), of the commands that drive it    *)
(* (src/src-tauri/src/commands/hotkey.rs) and of the placeholder           *)
(* HotkeyManager (src/src-tauri/src/hotkey/mod.rs).                        *)
(*                                                                         *)
(* Every access to shared state (the two static atomics, the two mutex     *)
(* protected slots, the shutdown channel, the readiness channel) is one    *)
(* step, so that calls running on different worker threads interleave as   *)
(* they can in the program.  Time is abstracted: a timeout may fire        *)
(* whenever the awaited result is not there.                               *)
(***************************************************************************)
EXTENDS Integers, FiniteSets, Sequences

\* ------------------------------------------------------------------ bounds
\* The threads that run the commands (register_hotkey, reset_wayland_hotkey,
\* unregister_hotkeys): two, so that any two commands can overlap.
Callers == {1, 2}
\* Number of shutdown channels (hence listener tasks) ever created.
MaxListeners == 2

Listeners == 1..MaxListeners
\* Option<..> slots hold a listener id, NoListener models None.
NoListener == 0

\* The id the application registers (commands/hotkey.rs:71) and an unrelated one.
RecordToggle == "record-toggle"
EventIds == {"record-toggle", "other-id"}

\* The trigger register() asks for (`shortcut`, commands/hotkey.rs:71) and the
\* trigger descriptions the broker may answer with; NoTrigger models None.
PreferredTrigger == "Alt+R"
Triggers == {"Alt+R", "Super+R", "Alt+Q"}
NoTrigger == "None"

\* One entry of the bind response: a bound shortcut and its trigger description.
Entry(id, t) == [id |-> id, trigger_description |-> t]

\* The lists `response.shortcuts()` may be: a foreign id only, or a foreign
\* id followed by the registered id, bound to another trigger than the
\* preferred one.
Responses ==
    { <<Entry("other-id", "Alt+Q")>>,
      <<Entry("other-id", "Alt+Q"), Entry("record-toggle", "Super+R")>> }

\* The shortcut strings given to HotkeyManager::register (hotkey/mod.rs); the
\* empty string is a String like any other.
Shortcuts == {"Ctrl+A", "Ctrl+B", ""}
\* Number of HotkeyManager::register / unregister calls in a run.
MaxCalls == 3

VARIABLES
    PORTAL_UNAVAILABLE,       \* static AtomicBool, wayland.rs:17
    REGISTRATION_IN_PROGRESS, \* static AtomicBool, wayland.rs:20
    shutdown_tx,              \* WaylandHotkeyManager.shutdown_tx, Option<Sender>
    listener_handle,          \* WaylandHotkeyManager.listener_handle, Option<JoinHandle>
    dropped,                  \* the manager has been dropped (Drop::drop ran)
    pc,                       \* position of each caller inside its command / register()
    res,                      \* result register() is returning to the caller
    tx,                       \* local `tx` of stop_listener_and_wait / stop_listener
    handle,                   \* local `handle` of stop_listener_and_wait
    mine,                     \* channel / listener created by the call in flight
    io,                       \* history: the broker's answer to the call's last I/O step
    superseded,               \* history: the listener whose handle the call took
    session,                  \* local `session` of register(): none / open / moved
    response,                 \* local `response`: the shortcuts of the bind response
    actual_trigger,           \* local `actual_trigger` of register()
    un_start,                 \* history: next_listener when unregister() was called, 0
                              \* when a register() call had a listener in the making
    lstate,                   \* state of each listener task
    chan,                     \* messages buffered in each shutdown channel (capacity 1)
    sends,                    \* history: try_send calls made on each shutdown channel
    ready,                    \* what the oneshot readiness channel holds
    abort_req,                \* abort() was called on the task and is pending
    closed,                   \* session.close() was invoked by the task
    close_calls,              \* history: number of session.close() calls of the task
    event,                    \* id of the activation the task is processing
    stream_ended,             \* activated_stream.next() has yielded None in the select!
                              \* the task is waiting in
    cb_balance,               \* history: callback invocations minus consumed matching events
    retired,                  \* history: an unregister() called after the task's register()
                              \* returned has signalled the task, dropped its handle and
                              \* returned, and the task has not left its loop since
    next_listener,            \* next channel / listener id to allocate
    current_hotkey,           \* HotkeyManager.current_hotkey, Option<String>
    hk_pc,                    \* position of the client of the HotkeyManager
    hk_shortcut,              \* argument `shortcut` of HotkeyManager::register
    hk_result,                \* what the HotkeyManager call in flight returns
    hk_invoked,               \* history: invocations of a callback given to HotkeyManager
    hk_log,                   \* history: the HotkeyManager calls that have returned
    other_pc,                 \* position of register() on a second WaylandHotkeyManager
    other_res,                \* result that register() is returning
    other_failed              \* history: that manager saw a connect or session failure

vars == <<PORTAL_UNAVAILABLE, REGISTRATION_IN_PROGRESS, shutdown_tx, listener_handle,
          dropped, pc, res, tx, handle, mine, io, superseded, session, response,
          actual_trigger, un_start, lstate, chan, sends, ready, abort_req, closed,
          close_calls, event, stream_ended, cb_balance, retired, next_listener,
          current_hotkey,
          hk_pc, hk_shortcut, hk_result, hk_invoked, hk_log, other_pc, other_res,
          other_failed>>

mgr_vars == <<shutdown_tx, listener_handle, dropped>>
flag_vars == <<PORTAL_UNAVAILABLE, REGISTRATION_IN_PROGRESS>>
\* The locals of register() between create_session and the return.
call_vars == <<session, response, actual_trigger>>
caller_vars == <<pc, res, tx, handle, mine, io, superseded, call_vars, un_start>>
\* What a listener task has done so far.
task_vars == <<close_calls, event, stream_ended, cb_balance, retired>>
listener_vars == <<lstate, chan, sends, ready, abort_req, closed, task_vars, next_listener>>
\* The placeholder manager of hotkey/mod.rs and its client.
hotkey_vars == <<current_hotkey, hk_pc, hk_shortcut, hk_result, hk_invoked, hk_log>>
\* A register() call on a second WaylandHotkeyManager of the same process.
other_vars == <<other_pc, other_res, other_failed>>
\* What the first WaylandHotkeyManager has no access to.
outside_vars == <<hotkey_vars, other_vars>>
\* The fields, callers and listeners of the first WaylandHotkeyManager.
wayland_vars == <<mgr_vars, caller_vars, listener_vars>>

\* ------------------------------------------------------------ state spaces
\* Positions of a caller.  "idle": no command running.  "after_reset":
\* reset_wayland_hotkey has run reset_portal_state and is about to register.
\* "rejected": register() is returning res[c] from one of its two fast-fail
\* exits, which hold no guard.  "ret": register() is returning res[c] from an
\* exit that holds the guard.
PcValues == {"idle", "after_reset", "cas", "stop_take_tx", "stop_take_handle",
             "stop_send", "stop_wait", "connect", "create_session", "bind",
             "store_tx", "spawn", "store_handle", "ready_wait", "ret", "rejected",
             "un_send", "un_take_handle"}

\* Positions inside register().
InRegister == PcValues \ {"idle", "after_reset", "un_send", "un_take_handle"}

\* Positions at which the call holds the registration guard.
GuardHeld == {"stop_take_tx", "stop_take_handle", "stop_send", "stop_wait", "connect",
              "create_session", "bind", "store_tx", "spawn", "store_handle",
              "ready_wait", "ret"}

\* Results of register(): Ok or one of the error strings of wayland.rs.
Results == {"none", "Ok", "PortalUnavailable", "InProgress", "ConnectTimeout",
            "ConnectError", "SessionTimeout", "SessionError", "BindTimeout",
            "BindError", "Cancelled", "ResponseError", "ListenerError",
            "ListenerExited"}

\* Outcomes of an awaited broker call under tokio::time::timeout.
IoOutcomes == {"ok", "timeout", "error"}

\* Outcomes of bind_shortcuts (60 s timeout) followed by request.response():
\* "cancelled" is a response error whose text contains "Other".
BindOutcomes == {"ok", "timeout", "error", "cancelled", "response_error"}

\* The broker steps of register() and what the broker answered, kept while
\* the call is in flight.
IoStages == {"connect", "create_session", "bind"}
NoIo == [stage |-> "none", outcome |-> "none"]
IoValues == {NoIo} \cup [stage : IoStages, outcome : BindOutcomes]

\* Listener task states.  "none": id not allocated; "created": channel made,
\* task not spawned yet; "subscribing": awaiting receive_activated();
\* "sub_failed": readiness failure sent, close not yet called; "loop": in
\* select!; "callback": inside callback(); "ignored": handling an activation
\* of another id; "closing": awaiting session.close(); "done": task
\* finished; "aborted": task cancelled.
LStates == {"none", "created", "subscribing", "sub_failed", "loop", "callback",
            "ignored", "closing", "done", "aborted"}

\* A task that has been spawned and has neither finished nor been cancelled.
Alive(l) ==
    lstate[l] \in {"subscribing", "sub_failed", "loop", "callback", "ignored", "closing"}

\* The receiving half of the shutdown channel still exists: it is held by
\* register() until the spawn and by the task afterwards.
ReceiverAlive(l) == lstate[l] \in {"created", "subscribing", "sub_failed", "loop",
                                   "callback", "ignored", "closing"}

\* Some Sender of listener l's channel still exists (slot or a local).
SenderAlive(l) ==
    \/ shutdown_tx = l
    \/ \E c \in Callers : tx[c] = l

\* The error taxonomy the error strings of register() fall into.
ErrClass(r) ==
    CASE r \in {"PortalUnavailable", "ConnectTimeout", "ConnectError",
                "SessionTimeout", "SessionError"} -> "BrokerUnavailable"
      [] r = "InProgress" -> "RegistrationInProgress"
      [] r = "BindTimeout" -> "BindTimeout"
      [] r = "Cancelled" -> "UserCancelled"
      [] r \in {"BindError", "ResponseError"} -> "BindFailed"
      [] r \in {"ListenerError", "ListenerExited"} -> "ListenerSubscriptionFailed"
      [] OTHER -> r

\* Option<String>: None, and Some(s).
NoHotkey == <<>>
SomeHotkey(s) == <<s>>

\* Positions of the client of the HotkeyManager: inside register() before
\* its call of unregister(), before its store and at its return; at the
\* return of unregister() and of get_current().
HkPcValues == {"idle", "register_unregister", "register_store", "register_ret",
               "unregister_ret", "get_current_ret"}

\* A HotkeyManager call that has returned: register(shortcut, ..) or unregister().
HkCalls == [op : {"register"}, shortcut : Shortcuts]
               \cup [op : {"unregister"}, shortcut : {""}]

\* Positions of the register() call on the second WaylandHotkeyManager.
OtherPcValues == {"idle", "cas", "connect", "create_session", "bind", "ret", "rejected"}

TypeOK ==
    /\ PORTAL_UNAVAILABLE \in BOOLEAN
    /\ REGISTRATION_IN_PROGRESS \in BOOLEAN
    /\ shutdown_tx \in {NoListener} \cup Listeners
    /\ listener_handle \in {NoListener} \cup Listeners
    /\ dropped \in BOOLEAN
    /\ pc \in [Callers -> PcValues]
    /\ res \in [Callers -> Results]
    /\ tx \in [Callers -> {NoListener} \cup Listeners]
    /\ handle \in [Callers -> {NoListener} \cup Listeners]
    /\ mine \in [Callers -> {NoListener} \cup Listeners]
    /\ io \in [Callers -> IoValues]
    /\ superseded \in [Callers -> {NoListener} \cup Listeners]
    /\ session \in [Callers -> {"none", "open", "moved"}]
    /\ response \in [Callers -> Responses \cup {<<>>}]
    /\ actual_trigger \in [Callers -> Triggers \cup {NoTrigger}]
    /\ un_start \in [Callers -> 0..(MaxListeners + 1)]
    /\ lstate \in [Listeners -> LStates]
    /\ chan \in [Listeners -> 0..1]
    /\ sends \in [Listeners -> Nat]
    /\ ready \in [Listeners -> {"none", "ok", "err"}]
    /\ abort_req \in [Listeners -> BOOLEAN]
    /\ closed \in [Listeners -> BOOLEAN]
    /\ close_calls \in [Listeners -> Nat]
    /\ event \in [Listeners -> EventIds \cup {"none"}]
    /\ stream_ended \in [Listeners -> BOOLEAN]
    /\ cb_balance \in [Listeners -> Int]
    /\ retired \in [Listeners -> BOOLEAN]
    /\ next_listener \in 1..(MaxListeners + 1)
    /\ current_hotkey \in {NoHotkey} \cup {SomeHotkey(s) : s \in Shortcuts}
    /\ hk_pc \in HkPcValues
    /\ hk_shortcut \in Shortcuts
    /\ hk_result \in {"none", "Ok"} \cup Shortcuts
    /\ hk_invoked \in Nat
    /\ hk_log \in Seq(HkCalls) /\ Len(hk_log) <= MaxCalls
    /\ other_pc \in OtherPcValues
    /\ other_res \in Results
    /\ other_failed \in BOOLEAN

\* WaylandHotkeyManager::new and the initial values of the statics;
\* HotkeyManager::new.
Init ==
    /\ PORTAL_UNAVAILABLE = FALSE
    /\ REGISTRATION_IN_PROGRESS = FALSE
    /\ shutdown_tx = NoListener
    /\ listener_handle = NoListener
    /\ dropped = FALSE
    /\ pc = [c \in Callers |-> "idle"]
    /\ res = [c \in Callers |-> "none"]
    /\ tx = [c \in Callers |-> NoListener]
    /\ handle = [c \in Callers |-> NoListener]
    /\ mine = [c \in Callers |-> NoListener]
    /\ io = [c \in Callers |-> NoIo]
    /\ superseded = [c \in Callers |-> NoListener]
    /\ session = [c \in Callers |-> "none"]
    /\ response = [c \in Callers |-> <<>>]
    /\ actual_trigger = [c \in Callers |-> NoTrigger]
    /\ un_start = [c \in Callers |-> 0]
    /\ lstate = [l \in Listeners |-> "none"]
    /\ chan = [l \in Listeners |-> 0]
    /\ sends = [l \in Listeners |-> 0]
    /\ ready = [l \in Listeners |-> "none"]
    /\ abort_req = [l \in Listeners |-> FALSE]
    /\ closed = [l \in Listeners |-> FALSE]
    /\ close_calls = [l \in Listeners |-> 0]
    /\ event = [l \in Listeners |-> "none"]
    /\ stream_ended = [l \in Listeners |-> FALSE]
    /\ cb_balance = [l \in Listeners |-> 0]
    /\ retired = [l \in Listeners |-> FALSE]
    /\ next_listener = 1
    /\ current_hotkey = NoHotkey
    /\ hk_pc = "idle"
    /\ hk_shortcut = ""
    /\ hk_result = "none"
    /\ hk_invoked = 0
    /\ hk_log = <<>>
    /\ other_pc = "idle"
    /\ other_res = "none"
    /\ other_failed = FALSE

\* tx.try_send(()) on listener l's channel: buffered when the channel has room
\* and a receiver, otherwise the error is ignored (`let _ =`).
TrySend(l) ==
    IF l # NoListener /\ ReceiverAlive(l) /\ chan[l] = 0
    THEN [chan EXCEPT ![l] = 1]
    ELSE chan

\* The holder of listener l's Sender calls try_send: one more call is
\* counted for l's channel; without a Sender (None) nothing is called.
Counted(l) == IF l # NoListener THEN [sends EXCEPT ![l] = @ + 1] ELSE sends

\* --------------------------------------------- commands/hotkey.rs, register()
\* Listener ids left to allocate, and the calls that may still allocate one:
\* a call is admitted only while an id is left for it (the model's bound).
PreAlloc == {"cas", "stop_take_tx", "stop_take_handle", "stop_send", "stop_wait",
             "connect", "create_session", "bind", "store_tx"}
IdsLeft(c) ==
    Cardinality({d \in Callers \ {c} : pc[d] \in PreAlloc}) + next_listener <= MaxListeners

\* reset_portal_state(), as called first by the reset_wayland_hotkey command.
ResetPortalState(c) ==
    /\ ~dropped
    /\ pc[c] = "idle"
    /\ PORTAL_UNAVAILABLE' = FALSE
    /\ pc' = [pc EXCEPT ![c] = "after_reset"]
    /\ UNCHANGED <<outside_vars, REGISTRATION_IN_PROGRESS, mgr_vars, res, tx, handle, mine, io, superseded,
                   listener_vars, call_vars, un_start>>

\* Faulty variant of StickyCheck: register() without the sticky check.
StickyCheck_Skipped == FALSE

\* The sticky check at the head of register(): the load of PORTAL_UNAVAILABLE.
StickyCheck == PORTAL_UNAVAILABLE

\* register() is entered (from register_hotkey, or from reset_wayland_hotkey
\* after the reset) and fails fast when the sticky flag is set.
RegisterEnter(c) ==
    /\ ~dropped
    /\ pc[c] \in {"idle", "after_reset"}
    /\ IF StickyCheck
       THEN /\ pc' = [pc EXCEPT ![c] = "rejected"]
            /\ res' = [res EXCEPT ![c] = "PortalUnavailable"]
       ELSE /\ IdsLeft(c)
            /\ pc' = [pc EXCEPT ![c] = "cas"]
            /\ res' = res
    /\ UNCHANGED <<outside_vars, flag_vars, mgr_vars, tx, handle, mine, io, superseded, listener_vars, call_vars, un_start>>

\* Faulty variant of CasSucceeds: a plain store instead of a compare-and-set.
CasSucceeds_Always == TRUE

\* compare_exchange(false, true) on REGISTRATION_IN_PROGRESS succeeds.
CasSucceeds == REGISTRATION_IN_PROGRESS = FALSE

\* The compare-and-set: the winner takes the guard, the loser returns at once.
RegisterCas(c) ==
    /\ pc[c] = "cas"
    /\ IF CasSucceeds
       THEN /\ REGISTRATION_IN_PROGRESS' = TRUE
            /\ pc' = [pc EXCEPT ![c] = "stop_take_tx"]
            /\ res' = res
       ELSE /\ REGISTRATION_IN_PROGRESS' = REGISTRATION_IN_PROGRESS
            /\ pc' = [pc EXCEPT ![c] = "rejected"]
            /\ res' = [res EXCEPT ![c] = "InProgress"]
    /\ UNCHANGED <<outside_vars, PORTAL_UNAVAILABLE, mgr_vars, tx, handle, mine, io, superseded, listener_vars, call_vars, un_start>>

\* Faulty variant of StopTakeTx: the Sender is cloned out of the slot
\* (`.lock().clone()`), which keeps its own.
StopTakeTx_Clones(c) ==
    /\ pc[c] = "stop_take_tx"
    /\ tx' = [tx EXCEPT ![c] = shutdown_tx]
    /\ pc' = [pc EXCEPT ![c] = "stop_take_handle"]
    /\ UNCHANGED <<outside_vars, flag_vars, mgr_vars, res, handle, mine, io, superseded,
                   listener_vars, call_vars, un_start>>

\* stop_listener_and_wait: `let tx = self.shutdown_tx.lock().take();`
StopTakeTx(c) ==
    /\ pc[c] = "stop_take_tx"
    /\ tx' = [tx EXCEPT ![c] = shutdown_tx]
    /\ shutdown_tx' = NoListener
    /\ pc' = [pc EXCEPT ![c] = "stop_take_handle"]
    /\ UNCHANGED <<outside_vars, flag_vars, listener_handle, dropped, res, handle, mine, io, superseded,
                   listener_vars, call_vars, un_start>>

\* stop_listener_and_wait: `let handle = self.listener_handle.lock().take();`
StopTakeHandle(c) ==
    /\ pc[c] = "stop_take_handle"
    /\ handle' = [handle EXCEPT ![c] = listener_handle]
    /\ superseded' = [superseded EXCEPT ![c] = listener_handle]
    /\ listener_handle' = NoListener
    /\ pc' = [pc EXCEPT ![c] = "stop_send"]
    /\ UNCHANGED <<outside_vars, flag_vars, shutdown_tx, dropped, res, tx, mine, io, listener_vars, call_vars, un_start>>

\* Faulty variant of AfterSend: the signal is sent but the handle is not awaited.
AfterSend_NoWait(c) == "connect"

\* What register() does after the signal: await the taken handle, or go on.
AfterSend(c) == IF handle[c] # NoListener THEN "stop_wait" ELSE "connect"

\* stop_listener_and_wait: `if let Some(tx) = tx { let _ = tx.try_send(()); }`;
\* the Sender is dropped at the end of the block.
StopSend(c) ==
    /\ pc[c] = "stop_send"
    /\ chan' = TrySend(tx[c])
    /\ sends' = Counted(tx[c])
    /\ tx' = [tx EXCEPT ![c] = NoListener]
    /\ pc' = [pc EXCEPT ![c] = AfterSend(c)]
    /\ UNCHANGED <<outside_vars, flag_vars, mgr_vars, res, handle, mine, io, superseded, lstate, ready,
                   abort_req, closed, task_vars, next_listener, call_vars, un_start>>

\* stop_listener_and_wait: the awaited JoinHandle completes within the timeout.
StopWaitJoined(c) ==
    /\ pc[c] = "stop_wait"
    /\ lstate[handle[c]] \in {"done", "aborted"}
    /\ handle' = [handle EXCEPT ![c] = NoListener]
    /\ pc' = [pc EXCEPT ![c] = "connect"]
    /\ UNCHANGED <<outside_vars, flag_vars, mgr_vars, res, tx, mine, io, superseded, listener_vars, call_vars, un_start>>

\* Faulty variant of StopWaitTimeout: the JoinHandle is awaited without a
\* timeout, so the step never happens.
StopWaitTimeout_Never(c) ==
    /\ pc[c] = "stop_wait"
    /\ lstate[handle[c]] \notin {"done", "aborted"}
    /\ FALSE
    /\ UNCHANGED vars

\* stop_listener_and_wait: the 5 s timeout fires first, the task is aborted.
StopWaitTimeout(c) ==
    /\ pc[c] = "stop_wait"
    /\ lstate[handle[c]] \notin {"done", "aborted"}
    /\ abort_req' = [abort_req EXCEPT ![handle[c]] = TRUE]
    /\ handle' = [handle EXCEPT ![c] = NoListener]
    /\ pc' = [pc EXCEPT ![c] = "connect"]
    /\ UNCHANGED <<outside_vars, flag_vars, mgr_vars, res, tx, mine, io, superseded, lstate, chan, sends, ready,
                   closed, task_vars, next_listener, call_vars, un_start>>

\* Faulty variant of ConnectFailureIsSticky: the failure is returned, the flag not set.
ConnectFailureIsSticky_No == FALSE

\* Whether a failure of the connect / create-session step marks the portal
\* unavailable (the PORTAL_UNAVAILABLE.store(true) in both map_err closures).
ConnectFailureIsSticky == TRUE

\* GlobalShortcuts::new() under a 5 s timeout.
Connect(c, o) ==
    /\ pc[c] = "connect"
    /\ io' = [io EXCEPT ![c] = [stage |-> "connect", outcome |-> o]]
    /\ IF o = "ok"
       THEN /\ pc' = [pc EXCEPT ![c] = "create_session"]
            /\ UNCHANGED <<PORTAL_UNAVAILABLE, res>>
       ELSE /\ PORTAL_UNAVAILABLE' = (PORTAL_UNAVAILABLE \/ ConnectFailureIsSticky)
            /\ pc' = [pc EXCEPT ![c] = "ret"]
            /\ res' = [res EXCEPT ![c] = IF o = "timeout" THEN "ConnectTimeout"
                                                         ELSE "ConnectError"]
    /\ UNCHANGED <<outside_vars, REGISTRATION_IN_PROGRESS, mgr_vars, tx, handle, mine, superseded,
                   listener_vars, call_vars, un_start>>

\* shortcuts.create_session() under a 5 s timeout.
CreateSession(c, o) ==
    /\ pc[c] = "create_session"
    /\ io' = [io EXCEPT ![c] = [stage |-> "create_session", outcome |-> o]]
    /\ IF o = "ok"
       THEN /\ pc' = [pc EXCEPT ![c] = "bind"]
            /\ session' = [session EXCEPT ![c] = "open"]
            /\ UNCHANGED <<PORTAL_UNAVAILABLE, res>>
       ELSE /\ PORTAL_UNAVAILABLE' = (PORTAL_UNAVAILABLE \/ ConnectFailureIsSticky)
            /\ pc' = [pc EXCEPT ![c] = "ret"]
            /\ res' = [res EXCEPT ![c] = IF o = "timeout" THEN "SessionTimeout"
                                                         ELSE "SessionError"]
            /\ session' = session
    /\ UNCHANGED <<outside_vars, REGISTRATION_IN_PROGRESS, mgr_vars, tx, handle, mine, superseded,
                   listener_vars, response, actual_trigger, un_start>>

\* Faulty variant of BindError: the response error is not searched for "Other".
BindError_NoCancel(o) ==
    CASE o = "timeout" -> "BindTimeout"
      [] o = "error" -> "BindError"
      [] OTHER -> "ResponseError"

\* The error string register() returns for a failed bind.
BindError(o) ==
    CASE o = "timeout" -> "BindTimeout"
      [] o = "error" -> "BindError"
      [] o = "cancelled" -> "Cancelled"
      [] OTHER -> "ResponseError"

\* Faulty variant of BindFailureIsSticky: bind failures treated like connect failures.
BindFailureIsSticky_Yes == TRUE

\* Whether a bind-stage failure marks the portal unavailable (it does not:
\* none of the three map_err closures stores PORTAL_UNAVAILABLE).
BindFailureIsSticky == FALSE

\* Faulty variant of ActualTrigger: the first entry is taken, whatever its id.
ActualTrigger_First(shortcuts, id) ==
    IF shortcuts = <<>> THEN NoTrigger ELSE shortcuts[1].trigger_description

\* `response.shortcuts().iter().find(|s| s.id() == shortcut_id)
\*      .map(|s| s.trigger_description().to_string())`
ActualTrigger(shortcuts, id) ==
    LET hits == {i \in 1..Len(shortcuts) : shortcuts[i].id = id}
    IN  IF hits = {}
        THEN NoTrigger
        ELSE shortcuts[CHOOSE i \in hits : \A j \in hits : i <= j].trigger_description

\* shortcuts.bind_shortcuts(..) and request.response(), then the extraction
\* of the trigger the broker bound to the registered id.
Bind(c, o) ==
    /\ pc[c] = "bind"
    /\ io' = [io EXCEPT ![c] = [stage |-> "bind", outcome |-> o]]
    /\ IF o = "ok"
       THEN /\ pc' = [pc EXCEPT ![c] = "store_tx"]
            /\ \E r \in Responses :
                   /\ response' = [response EXCEPT ![c] = r]
                   /\ actual_trigger' =
                          [actual_trigger EXCEPT ![c] = ActualTrigger(r, RecordToggle)]
            /\ UNCHANGED <<PORTAL_UNAVAILABLE, res>>
       ELSE /\ PORTAL_UNAVAILABLE' = (PORTAL_UNAVAILABLE \/ BindFailureIsSticky)
            /\ pc' = [pc EXCEPT ![c] = "ret"]
            /\ res' = [res EXCEPT ![c] = BindError(o)]
            /\ UNCHANGED <<response, actual_trigger>>
    /\ UNCHANGED <<outside_vars, REGISTRATION_IN_PROGRESS, mgr_vars, tx, handle, mine, superseded,
                   listener_vars, session, un_start>>

\* `let (shutdown_tx, mut shutdown_rx) = mpsc::channel::<()>(1);
\*  *self.shutdown_tx.lock() = Some(shutdown_tx);` (a Sender already in the
\* slot is dropped by the assignment).
StoreTx(c) ==
    /\ pc[c] = "store_tx"
    /\ next_listener <= MaxListeners
    /\ lstate' = [lstate EXCEPT ![next_listener] = "created"]
    /\ shutdown_tx' = next_listener
    /\ mine' = [mine EXCEPT ![c] = next_listener]
    /\ next_listener' = next_listener + 1
    /\ pc' = [pc EXCEPT ![c] = "spawn"]
    /\ UNCHANGED <<outside_vars, flag_vars, listener_handle, dropped, res, tx, handle, io, superseded,
                   chan, sends, ready, abort_req, closed, task_vars, call_vars, un_start>>

\* `let handle = tokio::spawn(async move { .. });`: the session, the proxy
\* and the receiver move into the task.
Spawn(c) ==
    /\ pc[c] = "spawn"
    /\ lstate' = [lstate EXCEPT ![mine[c]] = "subscribing"]
    /\ session' = [session EXCEPT ![c] = "moved"]
    /\ pc' = [pc EXCEPT ![c] = "store_handle"]
    /\ UNCHANGED <<outside_vars, flag_vars, mgr_vars, res, tx, handle, mine, io, superseded, chan, sends, ready,
                   abort_req, closed, task_vars, next_listener, response,
                   actual_trigger, un_start>>

\* `*self.listener_handle.lock() = Some(handle);` (a JoinHandle already in
\* the slot is dropped, which detaches its task).
StoreHandle(c) ==
    /\ pc[c] = "store_handle"
    /\ listener_handle' = mine[c]
    /\ pc' = [pc EXCEPT ![c] = "ready_wait"]
    /\ UNCHANGED <<outside_vars, flag_vars, shutdown_tx, dropped, res, tx, handle, mine, io, superseded,
                   listener_vars, call_vars, un_start>>

\* Faulty variant of ReadyResult: the handshake timeout fails the call.
ReadyResult_TimeoutFails(l) ==
    CASE ready[l] = "ok" -> "Ok"
      [] ready[l] = "err" -> "ListenerError"
      [] OTHER -> "ListenerExited"

\* Faulty variant of ReadyResult: the listener's error message is logged and
\* the call proceeds.
ReadyResult_IgnoresError(l) ==
    CASE ready[l] = "ok" -> "Ok"
      [] ready[l] = "err" -> "Ok"
      [] lstate[l] \in {"done", "aborted"} -> "ListenerExited"
      [] OTHER -> "Ok"

\* The result of the readiness wait: the listener's message if it sent one,
\* a receive error if it went away without sending, Ok after the timeout.
ReadyResult(l) ==
    CASE ready[l] = "ok" -> "Ok"
      [] ready[l] = "err" -> "ListenerError"
      [] lstate[l] \in {"done", "aborted"} -> "ListenerExited"
      [] OTHER -> "Ok"

\* `match tokio::time::timeout(5 s, ready_rx).await { .. }`: with nothing
\* sent the step is the timeout arm, which proceeds to Ok(actual_trigger).
\* ready_rx is consumed by the wait.
ReadyWait(c) ==
    /\ pc[c] = "ready_wait"
    /\ res' = [res EXCEPT ![c] = ReadyResult(mine[c])]
    /\ ready' = [ready EXCEPT ![mine[c]] = "none"]
    /\ pc' = [pc EXCEPT ![c] = "ret"]
    /\ UNCHANGED <<outside_vars, flag_vars, mgr_vars, tx, handle, mine, io, superseded, lstate, chan, sends,
                   abort_req, closed, task_vars, next_listener, call_vars, un_start>>

\* Faulty variant of GuardDropValue: the guard's drop leaves the flag as it is.
GuardDropValue_Stale == REGISTRATION_IN_PROGRESS

\* What RegistrationGuard::drop stores into REGISTRATION_IN_PROGRESS.
GuardDropValue == FALSE

\* register() returns through an exit that holds the guard: the guard is
\* dropped and the caller takes the result.
Return(c) ==
    /\ pc[c] = "ret"
    /\ REGISTRATION_IN_PROGRESS' = GuardDropValue
    /\ pc' = [pc EXCEPT ![c] = "idle"]
    /\ res' = [res EXCEPT ![c] = "none"]
    /\ mine' = [mine EXCEPT ![c] = NoListener]
    /\ io' = [io EXCEPT ![c] = NoIo]
    /\ superseded' = [superseded EXCEPT ![c] = NoListener]
    /\ session' = [session EXCEPT ![c] = "none"]
    /\ response' = [response EXCEPT ![c] = <<>>]
    /\ actual_trigger' = [actual_trigger EXCEPT ![c] = NoTrigger]
    /\ UNCHANGED <<outside_vars, PORTAL_UNAVAILABLE, mgr_vars, tx, handle, listener_vars, un_start>>

\* Faulty variant of ReturnRejected: the guard is created before the two fast-fail
\* exits, so a rejected call clears the flag of the call in flight.
ReturnRejected_ClearsFlag(c) ==
    /\ pc[c] = "rejected"
    /\ pc' = [pc EXCEPT ![c] = "idle"]
    /\ res' = [res EXCEPT ![c] = "none"]
    /\ REGISTRATION_IN_PROGRESS' = FALSE
    /\ UNCHANGED <<outside_vars, PORTAL_UNAVAILABLE, mgr_vars, tx, handle, mine, io, superseded,
                   listener_vars, call_vars, un_start>>

\* register() returns through one of the two exits taken before the guard
\* exists (lines 102 and 111): no flag is written.
ReturnRejected(c) ==
    /\ pc[c] = "rejected"
    /\ pc' = [pc EXCEPT ![c] = "idle"]
    /\ res' = [res EXCEPT ![c] = "none"]
    /\ UNCHANGED <<outside_vars, flag_vars, mgr_vars, tx, handle, mine, io, superseded, listener_vars, call_vars, un_start>>

\* ------------------------------------------------ unregister(), Drop::drop
\* No register() call is between the creation of its channel and its return:
\* the register() call of every listener created so far has returned.
AllRegistered == \A d \in Callers : mine[d] = NoListener

\* unregister() is called; stop_listener:
\* `if let Some(tx) = self.shutdown_tx.lock().take()`.
UnregisterTakeTx(c) ==
    /\ ~dropped
    /\ pc[c] = "idle"
    /\ tx' = [tx EXCEPT ![c] = shutdown_tx]
    /\ shutdown_tx' = NoListener
    /\ un_start' = [un_start EXCEPT ![c] = IF AllRegistered THEN next_listener ELSE 0]
    /\ pc' = [pc EXCEPT ![c] = IF shutdown_tx # NoListener THEN "un_send"
                                                          ELSE "un_take_handle"]
    /\ UNCHANGED <<outside_vars, flag_vars, listener_handle, dropped, res, handle, mine, io, superseded,
                   listener_vars, call_vars>>

\* stop_listener: `let _ = tx.try_send(());`, then the Sender is dropped.
UnregisterSend(c) ==
    /\ pc[c] = "un_send"
    /\ chan' = TrySend(tx[c])
    /\ sends' = Counted(tx[c])
    /\ tx' = [tx EXCEPT ![c] = NoListener]
    /\ pc' = [pc EXCEPT ![c] = "un_take_handle"]
    /\ UNCHANGED <<outside_vars, flag_vars, mgr_vars, res, handle, mine, io, superseded, lstate, ready,
                   abort_req, closed, task_vars, next_listener, call_vars, un_start>>

\* Faulty variant of UnregisterTakeHandle: unregister() returns without
\* taking the JoinHandle out of its slot.
UnregisterTakeHandle_Keeps(c) ==
    /\ pc[c] = "un_take_handle"
    /\ un_start' = [un_start EXCEPT ![c] = 0]
    /\ pc' = [pc EXCEPT ![c] = "idle"]
    /\ UNCHANGED <<outside_vars, flag_vars, mgr_vars, res, tx, handle, mine, io, superseded,
                   listener_vars, call_vars>>

\* stop_listener: `let _ = self.listener_handle.lock().take();` drops the
\* JoinHandle without awaiting it; unregister() returns.
UnregisterTakeHandle(c) ==
    /\ pc[c] = "un_take_handle"
    /\ listener_handle' = NoListener
    /\ retired' = [l \in Listeners |->
                      retired[l] \/ (l = listener_handle /\ l < un_start[c]
                                        /\ lstate[l] = "loop" /\ chan[l] = 1)]
    /\ un_start' = [un_start EXCEPT ![c] = 0]
    /\ pc' = [pc EXCEPT ![c] = "idle"]
    /\ UNCHANGED <<outside_vars, flag_vars, shutdown_tx, dropped, res, tx, handle, mine, io, superseded,
                   lstate, chan, sends, ready, abort_req, closed, close_calls, event, stream_ended,
                   cb_balance, next_listener, call_vars>>

\* Drop for WaylandHotkeyManager: stop_listener with exclusive access to the
\* manager (`&mut self`), so no register() or unregister() is running on it.
DropManager ==
    /\ ~dropped
    /\ \A c \in Callers : pc[c] = "idle"
    /\ chan' = TrySend(shutdown_tx)
    /\ sends' = Counted(shutdown_tx)
    /\ shutdown_tx' = NoListener
    /\ listener_handle' = NoListener
    /\ dropped' = TRUE
    /\ UNCHANGED <<outside_vars, flag_vars, caller_vars, lstate, ready, abort_req, closed, task_vars,
                   next_listener>>

\* ----------------------------------------------------------- listener task
\* ready_rx still exists: register() holds it until its readiness wait ends.
ReadyRxAlive(l) ==
    \E c \in Callers : mine[c] = l /\ pc[c] \in {"spawn", "store_handle", "ready_wait"}

\* `let _ = ready_tx.send(v)`: the value is lost when ready_rx is gone.
ReadySend(l, v) == IF ReadyRxAlive(l) THEN [ready EXCEPT ![l] = v] ELSE ready

\* receive_activated() succeeds: `ready_tx.send(Ok(()))`, enter the loop.
ListenerSubscribed(l) ==
    /\ lstate[l] = "subscribing"
    /\ ready' = ReadySend(l, "ok")
    /\ lstate' = [lstate EXCEPT ![l] = "loop"]
    /\ UNCHANGED <<outside_vars, flag_vars, mgr_vars, caller_vars, chan, sends, abort_req, closed,
                   next_listener, task_vars>>

\* Faulty variant of ListenerSubscribeFailed: the error path reports the
\* failure and goes on into the loop instead of returning.
ListenerSubscribeFailed_EntersLoop(l) ==
    /\ lstate[l] = "subscribing"
    /\ ready' = ReadySend(l, "err")
    /\ lstate' = [lstate EXCEPT ![l] = "loop"]
    /\ UNCHANGED <<outside_vars, flag_vars, mgr_vars, caller_vars, chan, sends, abort_req,
                   closed, next_listener, task_vars>>

\* receive_activated() fails: `ready_tx.send(Err(..))`.
ListenerSubscribeFailed(l) ==
    /\ lstate[l] = "subscribing"
    /\ ready' = ReadySend(l, "err")
    /\ lstate' = [lstate EXCEPT ![l] = "sub_failed"]
    /\ UNCHANGED <<outside_vars, flag_vars, mgr_vars, caller_vars, chan, sends, abort_req, closed,
                   next_listener, task_vars>>

\* Faulty variant of ListenerCloseOnError: the error path returns without
\* closing the session.
ListenerCloseOnError_NoClose(l) ==
    /\ lstate[l] = "sub_failed"
    /\ lstate' = [lstate EXCEPT ![l] = "closing"]
    /\ UNCHANGED <<outside_vars, flag_vars, mgr_vars, caller_vars, chan, sends, ready, abort_req, closed,
                   next_listener, task_vars>>

\* Error path: `session.close().await` is called before the task returns.
ListenerCloseOnError(l) ==
    /\ lstate[l] = "sub_failed"
    /\ closed' = [closed EXCEPT ![l] = TRUE]
    /\ close_calls' = [close_calls EXCEPT ![l] = @ + 1]
    /\ lstate' = [lstate EXCEPT ![l] = "closing"]
    /\ UNCHANGED <<outside_vars, flag_vars, mgr_vars, caller_vars, chan, sends, ready, abort_req,
                   next_listener, event, stream_ended, cb_balance, retired>>

\* The id a listener was registered for (`shortcut_id_owned`).
ShortcutIdOf(l) == RecordToggle

\* Faulty variant of Matches: every activation is dispatched, whatever its id.
Matches_Any(l, id) == TRUE

\* `activated.shortcut_id() == shortcut_id_owned`
Matches(l, id) == id = ShortcutIdOf(l)

\* select!: the activation branch takes an event with the given id from the
\* stream; callback() is invoked when the id matches.
ListenerActivated(l, id) ==
    /\ lstate[l] = "loop"
    /\ ~stream_ended[l]
    /\ event' = [event EXCEPT ![l] = id]
    /\ lstate' = [lstate EXCEPT ![l] = IF Matches(l, id) THEN "callback" ELSE "ignored"]
    /\ cb_balance' = [cb_balance EXCEPT ![l] =
                         @ + (IF Matches(l, id) THEN 1 ELSE 0)
                           - (IF id = ShortcutIdOf(l) THEN 1 ELSE 0)]
    /\ UNCHANGED <<outside_vars, flag_vars, mgr_vars, caller_vars, chan, sends, ready, abort_req,
                   closed, next_listener, close_calls, stream_ended, retired>>

\* Faulty variant of ListenerStreamEnded: the end of the stream breaks the
\* loop, and the session is closed.
ListenerStreamEnded_Breaks(l) ==
    /\ lstate[l] = "loop"
    /\ ~stream_ended[l]
    /\ closed' = [closed EXCEPT ![l] = TRUE]
    /\ close_calls' = [close_calls EXCEPT ![l] = @ + 1]
    /\ retired' = [retired EXCEPT ![l] = FALSE]
    /\ lstate' = [lstate EXCEPT ![l] = "closing"]
    /\ UNCHANGED <<outside_vars, flag_vars, mgr_vars, caller_vars, chan, sends, ready, abort_req,
                   next_listener, event, stream_ended, cb_balance>>

\* select!: activated_stream.next() yields None (the stream has ended or
\* failed); the pattern `Some(activated)` does not match, which disables the
\* activation branch, and the select! goes on waiting for shutdown_rx.recv().
ListenerStreamEnded(l) ==
    /\ lstate[l] = "loop"
    /\ ~stream_ended[l]
    /\ stream_ended' = [stream_ended EXCEPT ![l] = TRUE]
    /\ UNCHANGED <<outside_vars, flag_vars, mgr_vars, caller_vars, lstate, chan, sends, ready,
                   abort_req, closed, next_listener, close_calls, event, cb_balance,
                   retired>>

\* callback() returns, the loop goes on.
ListenerCallbackReturns(l) ==
    /\ lstate[l] = "callback"
    /\ event' = [event EXCEPT ![l] = "none"]
    /\ lstate' = [lstate EXCEPT ![l] = "loop"]
    /\ UNCHANGED <<outside_vars, flag_vars, mgr_vars, caller_vars, chan, sends, ready, abort_req,
                   closed, next_listener, close_calls, stream_ended, cb_balance, retired>>

\* The branch body ends without a call for an event of another id, the loop
\* goes on.
ListenerEventIgnored(l) ==
    /\ lstate[l] = "ignored"
    /\ event' = [event EXCEPT ![l] = "none"]
    /\ lstate' = [lstate EXCEPT ![l] = "loop"]
    /\ UNCHANGED <<outside_vars, flag_vars, mgr_vars, caller_vars, chan, sends, ready, abort_req,
                   closed, next_listener, close_calls, stream_ended, cb_balance, retired>>

\* shutdown_rx.recv() is ready: a buffered message, or None once every
\* Sender is gone.
ShutdownReady(l) == chan[l] = 1 \/ ~SenderAlive(l)

\* Faulty variant of ListenerShutdown: the shutdown branch takes the message
\* without `break`, so the task stays in its loop.
ListenerShutdown_Continue(l) ==
    /\ lstate[l] = "loop"
    /\ ShutdownReady(l)
    /\ chan' = [chan EXCEPT ![l] = 0]
    /\ UNCHANGED <<outside_vars, sends, flag_vars, mgr_vars, caller_vars, lstate, ready, abort_req, closed,
                   next_listener, task_vars>>

\* select!: the shutdown branch breaks the loop; session.close() is called.
ListenerShutdown(l) ==
    /\ lstate[l] = "loop"
    /\ ShutdownReady(l)
    /\ chan' = [chan EXCEPT ![l] = 0]
    /\ closed' = [closed EXCEPT ![l] = TRUE]
    /\ close_calls' = [close_calls EXCEPT ![l] = @ + 1]
    /\ retired' = [retired EXCEPT ![l] = FALSE]
    /\ stream_ended' = [stream_ended EXCEPT ![l] = FALSE]
    /\ lstate' = [lstate EXCEPT ![l] = "closing"]
    /\ UNCHANGED <<outside_vars, sends, flag_vars, mgr_vars, caller_vars, ready, abort_req,
                   next_listener, event, cb_balance>>

\* Faulty variant of ListenerClosed: the shutdown branch closes the session
\* without `break`, so the task goes back into the loop.
ListenerClosed_NoBreak(l) ==
    /\ lstate[l] = "closing"
    /\ lstate' = [lstate EXCEPT ![l] = "loop"]
    /\ UNCHANGED <<outside_vars, flag_vars, mgr_vars, caller_vars, chan, sends, ready, abort_req, closed,
                   next_listener, task_vars>>

\* session.close().await completes and the task ends; its shutdown_rx is
\* dropped, and with it whatever the channel still buffers; an abort() that
\* was pending has nothing left to cancel, and a finished task is no longer
\* one that an unregister() left running.
ListenerClosed(l) ==
    /\ lstate[l] = "closing"
    /\ lstate' = [lstate EXCEPT ![l] = "done"]
    /\ chan' = [chan EXCEPT ![l] = 0]
    /\ abort_req' = [abort_req EXCEPT ![l] = FALSE]
    /\ retired' = [retired EXCEPT ![l] = FALSE]
    /\ UNCHANGED <<outside_vars, sends, flag_vars, mgr_vars, caller_vars, ready, closed, next_listener,
                   close_calls, event, stream_ended, cb_balance>>

\* The await points of the task, where a requested abort takes effect.
AwaitPoints == {"subscribing", "loop", "closing"}

\* The runtime cancels an aborted task at its next await point: the future
\* (session, proxy, receiver) is dropped without running the rest of the task.
ListenerAborted(l) ==
    /\ abort_req[l]
    /\ lstate[l] \in AwaitPoints
    /\ lstate' = [lstate EXCEPT ![l] = "aborted"]
    /\ chan' = [chan EXCEPT ![l] = 0]
    /\ abort_req' = [abort_req EXCEPT ![l] = FALSE]
    /\ retired' = [retired EXCEPT ![l] = FALSE]
    /\ stream_ended' = [stream_ended EXCEPT ![l] = FALSE]
    /\ UNCHANGED <<outside_vars, sends, flag_vars, mgr_vars, caller_vars, ready, closed, next_listener,
                   close_calls, event, cb_balance>>

\* ------------------------------------- hotkey/mod.rs, HotkeyManager
\* get_current(): `.lock().as_ref().cloned().unwrap_or_default()`.
GetCurrent(h) == IF h = NoHotkey THEN "" ELSE h[1]

\* Faulty variant of UnregisterEffect: the hotkey is logged, not cleared.
UnregisterEffect_Keeps(h) == h

\* unregister(): `if let Some(ref shortcut) = *hotkey { .. *hotkey = None; }`.
UnregisterEffect(h) == IF h # NoHotkey THEN NoHotkey ELSE h

\* Faulty variant of StoredHotkey: register() without its store.
StoredHotkey_Nothing(h, s) == h

\* register(): `*self.current_hotkey.lock() = Some(shortcut.clone());`
StoredHotkey(h, s) == SomeHotkey(s)

\* The number of times register() calls `_callback`: it is dropped unused.
RegisterInvocations == 0

\* HotkeyManager::register(shortcut, _callback) is called.
HkRegisterCall(s) ==
    /\ hk_pc = "idle"
    /\ Len(hk_log) < MaxCalls
    /\ hk_shortcut' = s
    /\ hk_pc' = "register_unregister"
    /\ UNCHANGED <<flag_vars, wayland_vars, other_vars, current_hotkey, hk_result,
                   hk_invoked, hk_log>>

\* register(): `self.unregister()?;` (unregister() has no failing path).
HkRegisterUnregister ==
    /\ hk_pc = "register_unregister"
    /\ current_hotkey' = UnregisterEffect(current_hotkey)
    /\ hk_pc' = "register_store"
    /\ UNCHANGED <<flag_vars, wayland_vars, other_vars, hk_shortcut, hk_result,
                   hk_invoked, hk_log>>

\* register(): the store of the new hotkey, then `Ok(())`.
HkRegisterStore ==
    /\ hk_pc = "register_store"
    /\ current_hotkey' = StoredHotkey(current_hotkey, hk_shortcut)
    /\ hk_invoked' = hk_invoked + RegisterInvocations
    /\ hk_result' = "Ok"
    /\ hk_pc' = "register_ret"
    /\ UNCHANGED <<flag_vars, wayland_vars, other_vars, hk_shortcut, hk_log>>

\* register() returns to the client.
HkRegisterReturn ==
    /\ hk_pc = "register_ret"
    /\ hk_log' = Append(hk_log, [op |-> "register", shortcut |-> hk_shortcut])
    /\ hk_shortcut' = ""
    /\ hk_result' = "none"
    /\ hk_pc' = "idle"
    /\ UNCHANGED <<flag_vars, wayland_vars, other_vars, current_hotkey, hk_invoked>>

\* HotkeyManager::unregister() is called by the client: the hotkey is
\* cleared under the lock, then `Ok(())`.
HkUnregisterCall ==
    /\ hk_pc = "idle"
    /\ Len(hk_log) < MaxCalls
    /\ current_hotkey' = UnregisterEffect(current_hotkey)
    /\ hk_result' = "Ok"
    /\ hk_pc' = "unregister_ret"
    /\ UNCHANGED <<flag_vars, wayland_vars, other_vars, hk_shortcut, hk_invoked, hk_log>>

\* unregister() returns to the client.
HkUnregisterReturn ==
    /\ hk_pc = "unregister_ret"
    /\ hk_log' = Append(hk_log, [op |-> "unregister", shortcut |-> ""])
    /\ hk_result' = "none"
    /\ hk_pc' = "idle"
    /\ UNCHANGED <<flag_vars, wayland_vars, other_vars, current_hotkey, hk_shortcut,
                   hk_invoked>>

\* HotkeyManager::get_current() is called by the client.
HkGetCurrent ==
    /\ hk_pc = "idle"
    /\ hk_result' = GetCurrent(current_hotkey)
    /\ hk_pc' = "get_current_ret"
    /\ UNCHANGED <<flag_vars, wayland_vars, other_vars, current_hotkey, hk_shortcut,
                   hk_invoked, hk_log>>

\* get_current() returns to the client.
HkGetCurrentReturn ==
    /\ hk_pc = "get_current_ret"
    /\ hk_result' = "none"
    /\ hk_pc' = "idle"
    /\ UNCHANGED <<flag_vars, wayland_vars, other_vars, current_hotkey, hk_shortcut,
                   hk_invoked, hk_log>>

\* ------------------------- register() on a second WaylandHotkeyManager
\* The second manager has its own slots and its own listener, which the
\* first cannot reach; what the two share is the pair of statics.  Its
\* register() is followed through the steps that read or write them; the
\* steps on its own fields (the stop step, the channel, the spawn, the
\* readiness wait) are part of the neighbouring steps.

\* The answers of the broker to the second manager.
OtherOutcomes == {"ok", "timeout"}

\* register() is entered: the load of PORTAL_UNAVAILABLE.
OtherRegisterEnter ==
    /\ other_pc = "idle"
    /\ IF StickyCheck
       THEN /\ other_pc' = "rejected"
            /\ other_res' = "PortalUnavailable"
       ELSE /\ other_pc' = "cas"
            /\ other_res' = other_res
    /\ UNCHANGED <<flag_vars, wayland_vars, hotkey_vars, other_failed>>

\* The compare-and-set on REGISTRATION_IN_PROGRESS, then the stop step.
OtherRegisterCas ==
    /\ other_pc = "cas"
    /\ IF CasSucceeds
       THEN /\ REGISTRATION_IN_PROGRESS' = TRUE
            /\ other_pc' = "connect"
            /\ other_res' = other_res
       ELSE /\ REGISTRATION_IN_PROGRESS' = REGISTRATION_IN_PROGRESS
            /\ other_pc' = "rejected"
            /\ other_res' = "InProgress"
    /\ UNCHANGED <<PORTAL_UNAVAILABLE, wayland_vars, hotkey_vars, other_failed>>

\* GlobalShortcuts::new() under its timeout.
OtherConnect(o) ==
    /\ other_pc = "connect"
    /\ IF o = "ok"
       THEN /\ other_pc' = "create_session"
            /\ UNCHANGED <<PORTAL_UNAVAILABLE, other_res, other_failed>>
       ELSE /\ PORTAL_UNAVAILABLE' = (PORTAL_UNAVAILABLE \/ ConnectFailureIsSticky)
            /\ other_pc' = "ret"
            /\ other_res' = "ConnectTimeout"
            /\ other_failed' = TRUE
    /\ UNCHANGED <<REGISTRATION_IN_PROGRESS, wayland_vars, hotkey_vars>>

\* create_session() under its timeout.
OtherCreateSession(o) ==
    /\ other_pc = "create_session"
    /\ IF o = "ok"
       THEN /\ other_pc' = "bind"
            /\ UNCHANGED <<PORTAL_UNAVAILABLE, other_res, other_failed>>
       ELSE /\ PORTAL_UNAVAILABLE' = (PORTAL_UNAVAILABLE \/ ConnectFailureIsSticky)
            /\ other_pc' = "ret"
            /\ other_res' = "SessionTimeout"
            /\ other_failed' = TRUE
    /\ UNCHANGED <<REGISTRATION_IN_PROGRESS, wayland_vars, hotkey_vars>>

\* bind_shortcuts() under its timeout; on success the rest of register(),
\* which ends in Ok when the listener reports ready or is not heard of.
OtherBind(o) ==
    /\ other_pc = "bind"
    /\ other_pc' = "ret"
    /\ other_res' = IF o = "ok" THEN "Ok" ELSE BindError(o)
    /\ UNCHANGED <<flag_vars, wayland_vars, hotkey_vars, other_failed>>

\* register() returns through an exit that holds the guard.
OtherReturn ==
    /\ other_pc = "ret"
    /\ REGISTRATION_IN_PROGRESS' = GuardDropValue
    /\ other_pc' = "idle"
    /\ other_res' = "none"
    /\ UNCHANGED <<PORTAL_UNAVAILABLE, wayland_vars, hotkey_vars, other_failed>>

\* register() returns through one of the two exits taken before the guard exists.
OtherReturnRejected ==
    /\ other_pc = "rejected"
    /\ other_pc' = "idle"
    /\ other_res' = "none"
    /\ UNCHANGED <<flag_vars, wayland_vars, hotkey_vars, other_failed>>

\* --------------------------------------------------------- specification
Next ==
    \/ \E c \in Callers : ResetPortalState(c)
    \/ \E c \in Callers : RegisterEnter(c)
    \/ \E c \in Callers : RegisterCas(c)
    \/ \E c \in Callers : StopTakeTx(c)
    \/ \E c \in Callers : StopTakeHandle(c)
    \/ \E c \in Callers : StopSend(c)
    \/ \E c \in Callers : StopWaitJoined(c)
    \/ \E c \in Callers : StopWaitTimeout(c)
    \/ \E c \in Callers, o \in IoOutcomes : Connect(c, o)
    \/ \E c \in Callers, o \in IoOutcomes : CreateSession(c, o)
    \/ \E c \in Callers, o \in BindOutcomes : Bind(c, o)
    \/ \E c \in Callers : StoreTx(c)
    \/ \E c \in Callers : Spawn(c)
    \/ \E c \in Callers : StoreHandle(c)
    \/ \E c \in Callers : ReadyWait(c)
    \/ \E c \in Callers : Return(c)
    \/ \E c \in Callers : ReturnRejected(c)
    \/ \E c \in Callers : UnregisterTakeTx(c)
    \/ \E c \in Callers : UnregisterSend(c)
    \/ \E c \in Callers : UnregisterTakeHandle(c)
    \/ DropManager
    \/ \E l \in Listeners : ListenerSubscribed(l)
    \/ \E l \in Listeners : ListenerSubscribeFailed(l)
    \/ \E l \in Listeners : ListenerCloseOnError(l)
    \/ \E l \in Listeners, id \in EventIds : ListenerActivated(l, id)
    \/ \E l \in Listeners : ListenerStreamEnded(l)
    \/ \E l \in Listeners : ListenerCallbackReturns(l)
    \/ \E l \in Listeners : ListenerEventIgnored(l)
    \/ \E l \in Listeners : ListenerShutdown(l)
    \/ \E l \in Listeners : ListenerClosed(l)
    \/ \E l \in Listeners : ListenerAborted(l)

Spec == Init /\ [][Next]_vars

\* The HotkeyManager of hotkey/mod.rs, driven by one client thread.
HotkeyNext ==
    \/ \E s \in Shortcuts : HkRegisterCall(s)
    \/ HkRegisterUnregister
    \/ HkRegisterStore
    \/ HkRegisterReturn
    \/ HkUnregisterCall
    \/ HkUnregisterReturn
    \/ HkGetCurrent
    \/ HkGetCurrentReturn

HotkeySpec == Init /\ [][HotkeyNext]_vars

\* The register() calls of a second WaylandHotkeyManager.
OtherNext ==
    \/ OtherRegisterEnter
    \/ OtherRegisterCas
    \/ \E o \in OtherOutcomes : OtherConnect(o)
    \/ \E o \in OtherOutcomes : OtherCreateSession(o)
    \/ \E o \in OtherOutcomes : OtherBind(o)
    \/ OtherReturn
    \/ OtherReturnRejected

\* Two WaylandHotkeyManager instances in one process.
ManagersNext == Next \/ OtherNext

ManagersSpec == Init /\ [][ManagersNext]_vars

\* The steps of a register() call running on thread c, from the
\* compare-and-set to either return.  Each is a step of the thread itself or
\* the end of a wait bounded by tokio::time::timeout.
RegisterStep(c) ==
    \/ RegisterCas(c)
    \/ StopTakeTx(c)
    \/ StopTakeHandle(c)
    \/ StopSend(c)
    \/ StopWaitJoined(c)
    \/ StopWaitTimeout(c)
    \/ \E o \in IoOutcomes : Connect(c, o)
    \/ \E o \in IoOutcomes : CreateSession(c, o)
    \/ \E o \in BindOutcomes : Bind(c, o)
    \/ StoreTx(c)
    \/ Spawn(c)
    \/ StoreHandle(c)
    \/ ReadyWait(c)
    \/ Return(c)
    \/ ReturnRejected(c)

\* The program with the scheduling of register() only: a thread inside
\* register() keeps running and every timer fires.  Nothing is assumed of the
\* listener tasks, which may stay where they are for ever.
RegisterSpec == Spec /\ \A c \in Callers : WF_vars(RegisterStep(c))

\* The program with the scheduling of the listener tasks only: callback()
\* and session.close() return, the body of the activation branch runs to its
\* end, and the unbiased select! does not pass over a ready shutdown branch
\* for ever.  Nothing is assumed of the callers or of receive_activated().
TeardownSpec ==
    Spec /\ \A l \in Listeners :
                /\ WF_vars(ListenerCallbackReturns(l))
                /\ WF_vars(ListenerEventIgnored(l))
                /\ WF_vars(ListenerClosed(l))
                /\ SF_vars(ListenerShutdown(l))

\* ------------------------------------------------------------------ claims
\* A rejected call does nothing but return: from "rejected" its only step is
\* the return, which changes neither the flags, the slots nor any listener.
RejectedOnlyReturns(c) ==
    (pc[c] = "rejected" /\ pc'[c] # "rejected") =>
        /\ pc'[c] = "idle"
        /\ UNCHANGED <<flag_vars, mgr_vars, listener_vars>>

\* The step in which call c creates its session (create_session succeeds).
CreatesSession(c) == pc[c] = "create_session" /\ pc'[c] = "bind"

\* C1 (P1, mutual exclusion): two register() calls are never both past the
\* compare-and-set; a call that reaches the compare-and-set while another
\* call holds the guard returns "InProgress" at once, having touched neither
\* the slots, the listeners nor the broker, and a call that reaches it while
\* no call holds the guard proceeds to the stop step.
C1_MutualExclusion ==
    /\ [](\A c, d \in Callers :
            c # d => ~(pc[c] \in GuardHeld /\ pc[d] \in GuardHeld))
    /\ [][\A c \in Callers :
            (pc[c] = "cas" /\ pc'[c] # "cas") =>
                IF \E d \in Callers \ {c} : pc[d] \in GuardHeld
                THEN /\ pc'[c] = "rejected"
                     /\ res'[c] = "InProgress"
                     /\ UNCHANGED <<flag_vars, mgr_vars, listener_vars, tx, handle,
                                    mine, io, superseded>>
                ELSE pc'[c] = "stop_take_tx"]_vars
    /\ [][\A c \in Callers : RejectedOnlyReturns(c)]_vars

\* C1 witness: one call is rejected with "InProgress" while the other one is
\* waiting for the broker's bind answer.
C1_Witness ==
    \E c, d \in Callers :
        /\ pc[c] = "rejected" /\ res[c] = "InProgress"
        /\ pc[d] = "bind"

\* C2 (I2), as claimed: whenever a register() call creates its session, every
\* listener spawned before has terminated or has been aborted.
C2_SessionOnlyAfterListenersGone ==
    [][\A c \in Callers :
        CreatesSession(c) => \A l \in Listeners : Alive(l) => abort_req[l]]_vars

C4_AtMostOneListenerAlive ==
    Cardinality({l \in Listeners : Alive(l)}) <= 1

\* C5 (P2), as claimed: whenever a register() call returns, whatever its
\* outcome, REGISTRATION_IN_PROGRESS is false.
C5_FlagClearOnAnyReturn_Original ==
    [][\A c \in Callers :
        (pc[c] \in {"ret", "rejected"} /\ pc'[c] = "idle") =>
            REGISTRATION_IN_PROGRESS' = FALSE]_vars

\* C5, amended: when a register() call that acquired the flag returns, the
\* flag is false; a call that returns from a fast-fail exit leaves the flag
\* as the call in flight, if any, holds it.
C5_FlagClearOnGuardedReturn ==
    [][\A c \in Callers :
        /\ (pc[c] = "ret" /\ pc'[c] = "idle") => REGISTRATION_IN_PROGRESS' = FALSE
        /\ (pc[c] = "rejected" /\ pc'[c] = "idle") =>
               REGISTRATION_IN_PROGRESS' = REGISTRATION_IN_PROGRESS]_vars

\* C5 witness: a call that holds the guard is returning an error while a
\* rejected call is returning too.
C5_Witness ==
    \E c, d \in Callers :
        /\ pc[c] = "ret" /\ res[c] # "Ok"
        /\ pc[d] = "rejected" /\ res[d] = "InProgress"

\* C6 (I3): while a call holds the guard (from the compare-and-set it won to
\* its return, through every awaited step) the flag is true; the only step
\* that clears the flag is the return of the call that holds the guard; and
\* that call leaves register() only through that return, which clears it.
C6_FlagHeldForWholeCall ==
    /\ [](\A c \in Callers : pc[c] \in GuardHeld => REGISTRATION_IN_PROGRESS)
    /\ [][(REGISTRATION_IN_PROGRESS /\ ~REGISTRATION_IN_PROGRESS') =>
            \E c \in Callers : pc[c] = "ret" /\ pc'[c] = "idle"]_vars
    /\ [][\A c \in Callers :
            (pc[c] \in GuardHeld /\ pc'[c] \notin GuardHeld) =>
                /\ pc[c] = "ret"
                /\ pc'[c] = "idle"
                /\ ~REGISTRATION_IN_PROGRESS']_vars

\* C6 witness: a call is about to return a bind timeout, the flag still set,
\* while unregister() is running on the other thread.
C6_Witness ==
    \E c, d \in Callers :
        /\ pc[c] = "ret" /\ res[c] = "BindTimeout"
        /\ REGISTRATION_IN_PROGRESS
        /\ pc[d] = "un_take_handle"

\* C7 (P3): a register() call entered while PORTAL_UNAVAILABLE is set (set
\* by a failed connect or create-session and not reset since) returns
\* "PortalUnavailable" without touching flags, slots, listeners or broker.
C7_StickyFailsFast ==
    /\ [][\A c \in Callers :
            (PORTAL_UNAVAILABLE /\ pc[c] \in {"idle", "after_reset"}
                /\ pc'[c] \in InRegister) =>
                /\ pc'[c] = "rejected"
                /\ res'[c] = "PortalUnavailable"
                /\ io'[c] = NoIo
                /\ UNCHANGED <<flag_vars, mgr_vars, listener_vars>>]_vars
    /\ [][\A c \in Callers : RejectedOnlyReturns(c)]_vars
    /\ [](\A c \in Callers :
            (pc[c] = "rejected" /\ res[c] = "PortalUnavailable") => io[c] = NoIo)

\* C7 witness: the flag was set by a failed create-session of a call that
\* has not yet returned, and another call is failing fast.
C7_Witness ==
    \E c, d \in Callers :
        /\ PORTAL_UNAVAILABLE
        /\ pc[c] = "rejected" /\ res[c] = "PortalUnavailable"
        /\ pc[d] = "ret" /\ io[d].stage = "create_session"

\* C8: PORTAL_UNAVAILABLE goes from false to true only in a connect or
\* create-session step of register() that timed out or failed, and from true
\* to false only in reset_portal_state.
C8_StickyTransitions ==
    /\ [][(~PORTAL_UNAVAILABLE /\ PORTAL_UNAVAILABLE') =>
            \E c \in Callers :
                /\ pc[c] \in {"connect", "create_session"}
                /\ pc'[c] = "ret"
                /\ io'[c].stage = pc[c]
                /\ io'[c].outcome \in {"timeout", "error"}]_vars
    /\ [][(PORTAL_UNAVAILABLE /\ ~PORTAL_UNAVAILABLE') =>
            \E c \in Callers : pc[c] = "idle" /\ pc'[c] = "after_reset"]_vars

\* C8 witness: a failed connect set the flag and a reset has cleared it
\* since, before the failed call returned.
C8_Witness ==
    \E c, d \in Callers :
        /\ ~PORTAL_UNAVAILABLE
        /\ pc[c] = "after_reset"
        /\ pc[d] = "ret" /\ io[d] = [stage |-> "connect", outcome |-> "error"]

\* C9: a connect or create-session step that times out or fails sets
\* PORTAL_UNAVAILABLE and leaves slots and listeners alone; the call then
\* holds a BrokerUnavailable-class error and does nothing more than return.
C9_ConnectFailurePolicy ==
    /\ [][\A c \in Callers :
            (pc[c] \in {"connect", "create_session"} /\ io'[c].outcome # "ok"
                /\ io'[c] # io[c]) =>
                /\ PORTAL_UNAVAILABLE'
                /\ pc'[c] = "ret"
                /\ UNCHANGED <<mgr_vars, listener_vars>>]_vars
    /\ [](\A c \in Callers :
            (io[c].stage \in {"connect", "create_session"} /\ io[c].outcome # "ok") =>
                /\ pc[c] = "ret"
                /\ ErrClass(res[c]) = "BrokerUnavailable"
                /\ mine[c] = NoListener)
    /\ [][\A c \in Callers :
            (pc[c] = "ret" /\ pc'[c] # "ret") =>
                /\ pc'[c] = "idle"
                /\ UNCHANGED <<PORTAL_UNAVAILABLE, mgr_vars, listener_vars>>]_vars

\* C9 witness: a call that superseded a listener failed at create-session.
C9_Witness ==
    \E c \in Callers :
        /\ pc[c] = "ret"
        /\ io[c] = [stage |-> "create_session", outcome |-> "timeout"]
        /\ superseded[c] # NoListener
        /\ PORTAL_UNAVAILABLE

\* The class the bind-stage policy gives each failing bind outcome.
BindClass(o) ==
    CASE o = "timeout" -> "BindTimeout"
      [] o = "cancelled" -> "UserCancelled"
      [] OTHER -> "BindFailed"

\* C10: a bind timeout, a user cancellation and any other bind failure make
\* register() return BindTimeout, UserCancelled and BindFailed respectively,
\* and neither the failing step nor the return changes PORTAL_UNAVAILABLE.
C10_BindFailurePolicy ==
    /\ [](\A c \in Callers :
            (io[c].stage = "bind" /\ io[c].outcome # "ok") =>
                /\ pc[c] = "ret"
                /\ ErrClass(res[c]) = BindClass(io[c].outcome))
    /\ [][\A c \in Callers :
            (pc[c] = "bind" /\ pc'[c] = "ret") =>
                PORTAL_UNAVAILABLE' = PORTAL_UNAVAILABLE]_vars
    /\ [][\A c \in Callers :
            (pc[c] = "ret" /\ io[c].stage = "bind" /\ pc'[c] # "ret") =>
                PORTAL_UNAVAILABLE' = PORTAL_UNAVAILABLE]_vars

\* C10 witness: the user cancelled the dialog and the flag is not set.
C10_Witness ==
    \E c \in Callers :
        /\ pc[c] = "ret"
        /\ io[c] = [stage |-> "bind", outcome |-> "cancelled"]
        /\ res[c] = "Cancelled"
        /\ ~PORTAL_UNAVAILABLE

\* C11 (P5, event filtering): a listener is inside its callback exactly while
\* it handles an activation whose id is the id it was registered for, and it
\* handles an activation of any other id without a call; the callback
\* invocations of a listener and the activations with its id that it has
\* consumed are equal in number.
C11_EventFiltering ==
    \A l \in Listeners :
        /\ (lstate[l] = "callback") <=> (event[l] = ShortcutIdOf(l))
        /\ (lstate[l] = "ignored") <=> (event[l] \notin {"none", ShortcutIdOf(l)})
        /\ cb_balance[l] = 0

\* C11 witness: one listener is inside the callback for an activation of its
\* id while another one handles an activation of a foreign id.
C11_Witness ==
    \E l, m \in Listeners :
        /\ lstate[l] = "callback" /\ event[l] = RecordToggle
        /\ lstate[m] = "ignored" /\ event[m] = "other-id"

\* C12 (P6): no listener calls close() on its session more than once; a
\* listener that has left its loop on shutdown or has given up after a
\* failed subscription has called it exactly once, before the task finishes;
\* a listener that has done neither has not called it.
C12_CloseOnce ==
    \A l \in Listeners :
        /\ close_calls[l] <= 1
        /\ closed[l] <=> (close_calls[l] = 1)
        /\ lstate[l] \in {"closing", "done"} => close_calls[l] = 1
        /\ lstate[l] \in {"none", "created", "subscribing", "sub_failed", "loop",
                          "callback", "ignored"} => close_calls[l] = 0

\* C12 witness: one listener was aborted without having closed its session,
\* another one has closed its session after a failed subscription.
C12_Witness ==
    \E l, m \in Listeners :
        /\ lstate[l] = "aborted" /\ close_calls[l] = 0
        /\ lstate[m] = "closing" /\ ready[m] = "err" /\ close_calls[m] = 1

\* C13, as claimed: once an unregister() call that was made after the
\* register() call that created a listener had returned has returned itself
\* (the shutdown signal is in the listener's channel, its handle is dropped),
\* the listener starts no callback invocation.
C13_NoCallbackAfterUnregister ==
    [][\A l \in Listeners :
        retired[l] => ~(lstate[l] = "loop" /\ lstate'[l] = "callback")]_vars

\* C14: a listener leaves its loop for the close only when its shutdown
\* channel has a message or has lost every sender, and a listener that has
\* left its loop never handles an activation or calls the callback again:
\* it only finishes, or is cancelled.
C14_NoDispatchAfterShutdown ==
    [][\A l \in Listeners :
        /\ (lstate[l] = "loop" /\ lstate'[l] = "closing") => ShutdownReady(l)
        /\ lstate[l] \in {"closing", "done", "aborted"} =>
               /\ lstate'[l] \in {"closing", "done", "aborted"}
               /\ event'[l] = "none"
               /\ cb_balance'[l] = cb_balance[l]]_vars

\* C14 witness: a listener that had subscribed and reported its readiness has
\* taken the shutdown branch and is closing its session.
C14_Witness ==
    \E l \in Listeners : lstate[l] = "closing" /\ ready[l] = "ok" /\ chan[l] = 0

\* C15, as claimed: a register() call whose listener has failed to subscribe
\* does not return Ok.
C15_SubscribeFailureFailsRegister_Original ==
    [][\A c \in Callers :
        (pc[c] = "ret" /\ pc'[c] = "idle" /\ mine[c] # NoListener
            /\ lstate[mine[c]] = "sub_failed") => res[c] # "Ok"]_vars

\* C15, amended: a subscription failure that happens while register() still
\* holds the readiness receiver is reported through it, and the readiness
\* wait that finds the report makes register() return a
\* ListenerSubscriptionFailed error; the listener whose subscription failed
\* never enters its loop or the callback: without waiting for a shutdown
\* signal it calls close() and then finishes.
C15_SubscribeFailure ==
    /\ [][\A l \in Listeners :
            (lstate[l] = "subscribing" /\ lstate'[l] = "sub_failed" /\ ReadyRxAlive(l)) =>
                ready'[l] = "err"]_vars
    /\ [][\A l \in Listeners :
            (ready[l] = "err" /\ ready'[l] # "err") =>
                \E c \in Callers :
                    /\ mine[c] = l /\ pc[c] = "ready_wait" /\ pc'[c] = "ret"
                    /\ ErrClass(res'[c]) = "ListenerSubscriptionFailed"]_vars
    /\ [][\A l \in Listeners :
            (lstate[l] = "sub_failed" /\ lstate'[l] # "sub_failed") =>
                /\ lstate'[l] = "closing"
                /\ close_calls'[l] = close_calls[l] + 1
                /\ cb_balance'[l] = cb_balance[l]]_vars
    /\ [](\A l \in Listeners :
            /\ lstate[l] = "sub_failed" => ENABLED ListenerCloseOnError(l)
            /\ lstate[l] = "closing" => ENABLED ListenerClosed(l))

\* C15 witness: register() is returning the listener's subscription error
\* while the listener, never signalled, is closing its session.
C15_Witness ==
    \E c \in Callers :
        /\ pc[c] = "ret" /\ res[c] = "ListenerError"
        /\ lstate[mine[c]] = "closing" /\ chan[mine[c]] = 0 /\ shutdown_tx = mine[c]

\* C16, as claimed: when register() returns the listener's subscription
\* error, the listener has already called close() on the bound session.
C16_ClosedBeforeErrorReturned ==
    [][\A c \in Callers :
        (pc[c] = "ret" /\ pc'[c] = "idle"
            /\ ErrClass(res[c]) = "ListenerSubscriptionFailed") =>
                closed[mine[c]]]_vars

\* C17: when the readiness wait times out (nothing was sent, the listener is
\* still running), register() goes on to return Ok with the trigger it got
\* from the bind response; the step touches neither the slots nor the
\* listener, whose handle the call had recorded in the handle slot.
C17_ReadinessTimeoutProceeds ==
    /\ [][\A c \in Callers :
            (pc[c] = "ready_wait" /\ pc'[c] = "ret" /\ ready[mine[c]] = "none"
                /\ Alive(mine[c])) =>
                /\ res'[c] = "Ok"
                /\ actual_trigger'[c] = actual_trigger[c]
                /\ UNCHANGED <<mgr_vars, lstate, chan, sends, abort_req>>]_vars
    /\ [][\A c \in Callers :
            (pc[c] = "store_handle" /\ pc'[c] = "ready_wait") =>
                listener_handle' = mine[c]]_vars
    /\ [][\A c \in Callers :
            (pc[c] = "ret" /\ res[c] = "Ok" /\ pc'[c] = "idle") =>
                UNCHANGED <<mgr_vars, lstate, chan, sends, abort_req>>]_vars

\* C17 witness: register() is returning Ok after the timeout while its
\* listener, recorded in both slots, is still subscribing.
C17_Witness ==
    \E c \in Callers :
        /\ pc[c] = "ret" /\ res[c] = "Ok"
        /\ lstate[mine[c]] = "subscribing"
        /\ listener_handle = mine[c] /\ shutdown_tx = mine[c]

\* The trigger descriptions the bind response of call c gives for the id.
TriggersFor(c, id) ==
    {response[c][i].trigger_description :
        i \in {j \in DOMAIN response[c] : response[c][j].id = id}}

\* C18: a register() call that returns Ok returns the trigger description of
\* the bind-response entry whose id is the registered id, and None when the
\* response has no entry with that id; entries with other ids do not count.
C18_ReturnedTrigger ==
    \A c \in Callers :
        (pc[c] = "ret" /\ res[c] = "Ok") =>
            IF TriggersFor(c, RecordToggle) = {}
            THEN actual_trigger[c] = NoTrigger
            ELSE actual_trigger[c] \in TriggersFor(c, RecordToggle)

\* C18 witness: Ok is returned with a trigger that is not the preferred one,
\* taken from the second entry of a response whose first entry has another id.
C18_Witness ==
    \E c \in Callers :
        /\ pc[c] = "ret" /\ res[c] = "Ok"
        /\ Len(response[c]) = 2 /\ response[c][1].id # RecordToggle
        /\ actual_trigger[c] = "Super+R" /\ actual_trigger[c] # PreferredTrigger

\* Positions inside unregister().
InUnregister == {"un_send", "un_take_handle"}

\* The step in which the unregister() call of c returns.
UnregisterReturns(c) == pc[c] = "un_take_handle" /\ pc'[c] = "idle"

C20_NoSessionLeftOpen ==
    [][\A c \in Callers :
        (pc[c] = "ret" /\ pc'[c] = "idle") => session[c] # "open"]_vars

\* C21 (termination of register()): every register() call that has acquired
\* the in-progress flag eventually returns and leaves the flag released,
\* whatever the listeners and the broker do, because each of its waits ends
\* by a result or by its timeout; the wait for the previous listener ends
\* only with that listener terminated or with abort() called on it.
C21_RegisterTerminates ==
    /\ \A c \in Callers :
           (pc[c] \in GuardHeld) ~> (pc[c] = "idle" /\ ~REGISTRATION_IN_PROGRESS)
    /\ [][\A c \in Callers :
            (pc[c] = "stop_wait" /\ pc'[c] # "stop_wait") =>
                /\ pc'[c] = "connect"
                /\ \/ lstate[handle[c]] \in {"done", "aborted"}
                   \/ abort_req'[handle[c]]]_vars
    /\ [][\A c \in Callers :
            (pc[c] \in GuardHeld /\ pc'[c] \notin GuardHeld) =>
                (pc'[c] = "idle" /\ res[c] # "none" /\ ~REGISTRATION_IN_PROGRESS')]_vars

\* C21 witness: the previous listener is wedged inside its callback, the wait
\* for it has timed out and abort() is pending, and the call has gone on,
\* failed at the bind timeout and is returning.
C21_Witness ==
    \E c \in Callers :
        /\ pc[c] = "ret" /\ res[c] = "BindTimeout"
        /\ superseded[c] # NoListener
        /\ lstate[superseded[c]] = "callback" /\ abort_req[superseded[c]]

\* The states of a listener task that has entered its main loop and not left it.
LoopStates == {"loop", "callback", "ignored"}

\* C22, as claimed: a listener in its loop whose shutdown channel holds the
\* signal or has lost its sender goes on to close its session and finish:
\* it is not cancelled in its loop, which would end the task with the
\* session never closed.
C22_SignalledListenerCloses_Original ==
    [][\A l \in Listeners :
        (lstate[l] \in LoopStates /\ ShutdownReady(l)) => lstate'[l] # "aborted"]_vars

\* C22, amended: a listener in its loop whose shutdown channel holds the
\* signal or has lost its sender eventually leaves the loop and either calls
\* close() on its session and finishes, or is cancelled by the abort() of a
\* register() call whose wait for it timed out; it leaves the loop for the
\* close only.  unregister() and the destruction of the manager end without
\* any step of a listener: they change no listener's state and abort none.
C22_GracefulTeardown ==
    /\ \A l \in Listeners :
           (lstate[l] \in LoopStates /\ ShutdownReady(l)) ~>
               \/ lstate[l] = "done" /\ closed[l]
               \/ lstate[l] = "aborted"
    /\ [][\A l \in Listeners :
            (lstate[l] \in LoopStates /\ lstate'[l] \notin LoopStates) =>
                \/ lstate'[l] = "closing" /\ closed'[l]
                \/ lstate'[l] = "aborted" /\ abort_req[l]]_vars
    /\ [][\A c \in Callers :
            (pc'[c] # pc[c] /\ (pc[c] \in InUnregister \/ pc'[c] \in InUnregister)) =>
                UNCHANGED <<lstate, abort_req>>]_vars
    /\ [][(~dropped /\ dropped') => UNCHANGED <<lstate, abort_req>>]_vars

\* C22 witness: the manager has been destroyed, and the listener it signalled
\* has left its loop and is closing its session.
C22_Witness ==
    /\ dropped
    /\ \E l \in Listeners : lstate[l] = "closing" /\ closed[l] /\ ~abort_req[l]

\* The last call in the log of returned HotkeyManager calls.
LastCall == hk_log[Len(hk_log)]

\* C23: a new HotkeyManager reports the empty string; when register(s, cb)
\* returns it returns Ok and get_current() is s; after any sequence of
\* calls that ends with a register() call, get_current() returns the
\* shortcut of that last call; and no callback has been invoked.
C23_RegisterGetCurrent ==
    /\ hk_log = <<>> /\ hk_pc = "idle" => GetCurrent(current_hotkey) = ""
    /\ hk_pc = "register_ret" =>
           hk_result = "Ok" /\ GetCurrent(current_hotkey) = hk_shortcut
    /\ (hk_pc = "get_current_ret" /\ hk_log = <<>>) => hk_result = ""
    /\ (hk_pc = "get_current_ret" /\ hk_log # <<>> /\ LastCall.op = "register") =>
           hk_result = LastCall.shortcut
    /\ hk_invoked = 0

\* C23 witness: get_current() returns the second of two different shortcuts
\* registered one after the other.
C23_Witness ==
    /\ hk_pc = "get_current_ret"
    /\ Len(hk_log) = 2
    /\ hk_log[1].op = "register" /\ hk_log[2].op = "register"
    /\ hk_log[1].shortcut = "Ctrl+A" /\ hk_log[2].shortcut = "Ctrl+B"
    /\ hk_result = "Ctrl+B"

\* C24: unregister() returns Ok and leaves the manager without hotkey, so
\* that get_current() is the empty string, whether a hotkey was registered
\* or not; an unregister() call that follows an unregister() call, or that
\* is the first call on the manager, changes nothing.
C24_UnregisterIdempotent ==
    /\ [](hk_pc = "unregister_ret" =>
            /\ hk_result = "Ok"
            /\ current_hotkey = NoHotkey
            /\ GetCurrent(current_hotkey) = "")
    /\ []((hk_pc = "get_current_ret" /\ hk_log # <<>> /\ LastCall.op = "unregister") =>
            hk_result = "")
    /\ [][(hk_pc = "idle" /\ hk_pc' = "unregister_ret"
              /\ (hk_log = <<>> \/ LastCall.op = "unregister")) =>
            current_hotkey' = current_hotkey]_vars

\* C24 witness: the second of two unregister() calls that followed a
\* register() call is returning.
C24_Witness ==
    /\ hk_pc = "unregister_ret" /\ hk_result = "Ok"
    /\ Len(hk_log) = 2
    /\ hk_log[1].op = "register" /\ hk_log[1].shortcut = "Ctrl+A"
    /\ hk_log[2].op = "unregister"

\* C25, as claimed: a register() call on the second manager, which has one
\* calling thread only, is never rejected as a duplicate, and fails fast on
\* the sticky flag only after a connect or session failure of its own.
C25_ManagersIndependent ==
    /\ ~(other_pc = "rejected" /\ other_res = "InProgress")
    /\ (other_pc = "rejected" /\ other_res = "PortalUnavailable") => other_failed

\* The step in which call c gets an answer from the broker to its connect,
\* create-session or bind request.
BrokerStep(c) == pc[c] \in IoStages /\ pc'[c] # pc[c]

\* C26, as claimed: no register() call performs connect, create-session or
\* bind while PORTAL_UNAVAILABLE is set, that is after a failure set it and
\* before any reset_portal_state().
C26_NoBrokerIoWhileSticky ==
    [][\A c \in Callers : BrokerStep(c) => ~PORTAL_UNAVAILABLE]_vars

\* The listener created by a register() call that has returned Ok and that is
\* still in its loop: it has subscribed, so that the readiness wait of its
\* call found Ok or timed out, and its call is no longer in flight.
RegisteredOk(m) == lstate[m] \in LoopStates /\ \A c \in Callers : mine[c] # m

\* C27, as claimed: once a later register() call on the manager has returned
\* Ok, the listener of an earlier call starts no callback invocation.
C27_OldCallbackRetired ==
    [][\A l, m \in Listeners :
        (l < m /\ RegisteredOk(m)) =>
            ~(lstate[l] = "loop" /\ lstate'[l] = "callback")]_vars

\* C28, as claimed: whenever no call is running on the manager, the sender
\* slot and the handle slot are both empty or hold the same listener.
C28_SlotConsistency ==
    (~dropped /\ \A c \in Callers : pc[c] = "idle") => shutdown_tx = listener_handle

\* The return of a register() call that failed at connect, create-session
\* or bind.
BrokerFailureReturns(c) ==
    pc[c] = "ret" /\ pc'[c] = "idle" /\ io[c].outcome \notin {"none", "ok"}

\* C29, as claimed: a register() call that is at a broker step has left
\* both slots empty; when it returns a connect, create-session or bind
\* failure both slots are empty and the listener whose handle it took is no
\* longer running; a call rejected at one of the two fast-fail exits only
\* returns, leaving slots and listeners as they are.
C29_FailedRegisterDropsPrevious ==
    /\ [](\A c \in Callers :
            pc[c] \in IoStages =>
                shutdown_tx = NoListener /\ listener_handle = NoListener)
    /\ [][\A c \in Callers :
            BrokerFailureReturns(c) =>
                /\ shutdown_tx' = NoListener /\ listener_handle' = NoListener
                /\ superseded[c] # NoListener => ~Alive(superseded[c])]_vars
    /\ [][\A c \in Callers : RejectedOnlyReturns(c)]_vars

\* C30, as claimed: while PORTAL_UNAVAILABLE is set, both slots are empty.
C30_StickyImpliesNoListener ==
    PORTAL_UNAVAILABLE => (shutdown_tx = NoListener /\ listener_handle = NoListener)

Holders(l) ==
    (IF shutdown_tx = l THEN 1 ELSE 0) + Cardinality({c \in Callers : tx[c] = l})

\* C32 (single shutdown signal): the Sender of a channel is held by the slot
\* or by one call that took it out of the slot, never by two; try_send is
\* called at most once on a channel, by the holder of its Sender, which is
\* gone after the call; the call finds the channel empty, so that it fails
\* only when the receiver is gone, never on a full channel.
C32_SingleShutdownSignal ==
    /\ [](\A l \in Listeners : sends[l] <= 1 /\ Holders(l) <= 1)
    /\ [][\A l \in Listeners :
            sends'[l] # sends[l] =>
                /\ SenderAlive(l)
                /\ ~SenderAlive(l)'
                /\ chan[l] = 0
                /\ chan'[l] = 1 \/ ~ReceiverAlive(l)]_vars

\* C32 witness: an unregister() and a register() stop the same listener at
\* the same time: the unregister() took the Sender and has sent the one
\* message, the register() found the slot empty and is at its send step with
\* the listener's handle and no Sender.
C32_Witness ==
    \E l \in Listeners, c, d \in Callers :
        /\ sends[l] = 1 /\ chan[l] = 1
        /\ pc[c] = "stop_send" /\ tx[c] = NoListener /\ handle[c] = l
        /\ pc[d] = "un_take_handle"

\* The results of a register() call that failed before its listener task
\* was spawned: at connect, at create-session or at bind.
PreSpawnFailures == {"ConnectTimeout", "ConnectError", "SessionTimeout", "SessionError",
                     "BindTimeout", "BindError", "Cancelled", "ResponseError"}

\* The subscription of listener l has failed, or the register() call that
\* made l is returning a listener failure.
FailedAtSubscription(l) ==
    \/ lstate[l] = "sub_failed"
    \/ \E c \in Callers : /\ mine[c] = l /\ pc[c] = "ret"
                           /\ res[c] \in {"ListenerError", "ListenerExited"}

\* Listener l is inside the callback that was given to the register() call
\* that made l.
Invoking(l) == lstate[l] = "callback"

\* C33 (callback only after a successful bind): a call has a channel and a
\* task, to which its callback is moved, only after its bind step succeeded,
\* and the callback is invoked only once the call is past its spawn; a call
\* that returns a connect, create-session or bind failure has made no task,
\* so that its callback was moved nowhere; a listener whose subscription
\* failed, or whose call returns a listener failure, is never inside the
\* callback, neither afterwards nor before.
C33_CallbackOnlyAfterBind ==
    /\ [](\A c \in Callers :
            /\ mine[c] # NoListener => io[c] = [stage |-> "bind", outcome |-> "ok"]
            /\ (mine[c] # NoListener /\ Invoking(mine[c])) =>
                   pc[c] \in {"store_handle", "ready_wait", "ret"}
            /\ (pc[c] = "ret" /\ res[c] \in PreSpawnFailures) =>
                   (mine[c] = NoListener /\ session[c] # "moved"))
    /\ \A l \in Listeners : [](FailedAtSubscription(l) => [](~Invoking(l)))
    /\ \A l \in Listeners : [](Invoking(l) => [](~FailedAtSubscription(l)))

\* C33 witness: a listener is inside the callback of a call whose bind
\* succeeded and which has not returned yet, while the listener made by the
\* call before has failed to subscribe.
C33_Witness ==
    \E c \in Callers, l, m \in Listeners :
        /\ mine[c] = l /\ Invoking(l) /\ pc[c] = "ready_wait"
        /\ io[c] = [stage |-> "bind", outcome |-> "ok"]
        /\ lstate[m] = "sub_failed"

====
